---- MODULE Spec2Model ----
(***************************************************************************)
(* Pending-transaction reconciliation of TipsoBot.                         *)
(*                                                                         *)
(* The store and the ledger are the PostgreSQL tables behind db.ts (kept   *)
(* in src/src/migrate.sql, lines 503-904), the handlers are                *)
(* handleFormResponse and handleTransactionResponse of src/src/handlers.ts *)
(* (current revision: lines 1-669; per-recipient split revision: lines     *)
(* 671-1137).  Every handler is an async task and the steps of different   *)
(* tasks interleave.  A step ends at an await of a call that reads or      *)
(* writes the tables or moves funds; the chat messages and the removals of *)
(* forms, which no handler reads back, belong to the step they follow or   *)
(* precede in the code.                                                    *)
(***************************************************************************)
EXTENDS Integers, Sequences, FiniteSets, TLC

\* ------------------------------------------------------------------ bounds
NTasks == 2
MaxIds == 1
MaxEvents == 4
MaxEventsV2 == 5
MaxEventsContrib == 5
MaxFaults == 1
MaxCrashes == 1
NCallers == 2
MaxEventsPrice == 5
MaxEventsIndex == 4

\* ------------------------------------------------------- program constants
\* The clock counts units of 5 seconds.
JustCompletedWindow == 2
PurgeAge == 720
RetentionWindow == 120960
PRICE_CACHE_DURATION == 60
FallbackPrice == 3000
LeaderboardSize == 10

Tasks == 1..NTasks
Spaces == {"town1", "town2"}
OpenSpaces == {"town1"}
Sender == "alice"
Recipients == <<"bob", "carol">>
Creator == "dave"
Users == {Sender, Creator} \cup {Recipients[i] : i \in 1..Len(Recipients)}
RequestId == "req1"
GoalAmount == 10
NoRef == <<>>
NoUser == "none"
NoTime == -1
EmptyMap == [i \in {} |-> 0]
TickSteps == {1, PurgeAge + 1}

\* A request id "<kind>-<intentId>" is kept as the sequence of its parts
\* between the dashes, so that split('-') and startsWith() are computed.
Ids == {<<"tip", "e1">>, <<"tipsplit", "e2">>, <<"donate", "e3">>, <<"contrib", "e4">>}
Kind(id) == id[1]
PromptRef(id) == <<"form">> \o id
TxRef(txId) == <<"txform">> \o txId

\* Payloads the command layer stores for each kind (the data column).
TipData == {[usdAmount |-> 10, recipientId |-> Recipients[1]],
            [usdAmount |-> 5, recipientId |-> NoUser]}
SplitData == {[totalUsd |-> 10,
               recipients |-> <<[userId |-> Recipients[1], usdAmount |-> 5],
                                [userId |-> Recipients[2], usdAmount |-> 5]>>,
               completedRecipients |-> <<>>]}
DonateData == {[usdAmount |-> 10]}
ContribData == {[requestId |-> RequestId, contributorId |-> Sender,
                 creatorId |-> Creator, contributionUsd |-> 10],
                [requestId |-> RequestId, contributorId |-> Sender,
                 creatorId |-> Creator, contributionUsd |-> 5]}
PayloadsOf(id) ==
    CASE Kind(id) = "tip" -> TipData
      [] Kind(id) = "tipsplit" -> SplitData
      [] Kind(id) = "donate" -> DonateData
      [] OTHER -> ContribData

VARIABLES
    store,          \* pending_transactions: id -> row
    globalStats,    \* global_stats: space_id -> row
    userStats,      \* user_stats: <<space_id, user_id>> -> row
    paymentRequests,\* payment_requests: id -> row
    contributions,  \* contributions: the rows in insertion order
    ui,             \* the interactive UI elements still shown in the channel
    txRequests,     \* ids of the transaction requests sent to the user
    posted,         \* chat messages sent, counted per request id and kind
    chain,          \* transfers made from the bot wallet, per request id
    tasks,          \* the running handlers: position and locals
    now,            \* the clock
    hist,           \* per request id: how often it was opened, requested,
                    \* cancelled late and each ledger write ran for it
    budget,         \* the number of events, faults and crashes still allowed
    ethPriceCache,  \* the last fetched price and when its call started
    priceCalls      \* the running calls of getEthPrice, whether a price and
                    \* whether a positive price was fetched so far, and the
                    \* price last fetched with the start of its call

vars == <<store, globalStats, userStats, paymentRequests, contributions, ui,
          txRequests, posted, chain, tasks, now, hist, budget, ethPriceCache,
          priceCalls>>

\* ---------------------------------------------------------------- index.ts
\* A price is kept as the sequence of one number; the empty sequence is
\* undefined, the value of a field the response does not have.
Undefined == <<>>
Callers == 1..NCallers
FetchedPrices == {-1, 0, 2000, 4000}

\* What the request to the price service comes to: fetch() rejects, the body
\* is not JSON, the body has no "ethereum" object, that object has no "usd"
\* field, or it has one.
FetchFailures == {"network_error", "not_json", "no_ethereum"}
FetchOutcomes ==
    {[kind |-> k, usd |-> Undefined] : k \in FetchFailures \cup {"no_usd"}}
    \cup {[kind |-> "usd", usd |-> <<n>>] : n \in FetchedPrices}

IdleCall == [pc |-> "idle", started |-> 0, threw |-> FALSE, value |-> Undefined,
             fetched |-> "none", writes |-> 0]

\* price > 0 as the language computes it: undefined > 0 is false.
GreaterThanZero(price) == price # Undefined /\ price[1] > 0

CacheIsValid(cache, t) ==
    GreaterThanZero(cache.price) /\ t - cache.timestamp < PRICE_CACHE_DURATION

\* The variant of the catch block that lets the error go on to the caller
\* when there is no cached price.
getEthPriceCatchRethrowing(cache) ==
    IF GreaterThanZero(cache.price)
    THEN [threw |-> FALSE, value |-> cache.price, cache |-> cache]
    ELSE [threw |-> TRUE, value |-> Undefined, cache |-> cache]

\* The catch block of getEthPrice.
getEthPriceCatch(cache) ==
    [threw |-> FALSE,
     value |-> IF GreaterThanZero(cache.price) THEN cache.price
               ELSE <<FallbackPrice>>,
     cache |-> cache]

\* The try block of getEthPrice from the moment the request settles.
getEthPriceTry(cache, started, outcome) ==
    IF outcome.kind \in FetchFailures
    THEN getEthPriceCatch(cache)
    ELSE [threw |-> FALSE, value |-> outcome.usd,
          cache |-> [price |-> outcome.usd, timestamp |-> started]]

\* ------------------------------------------------------------------- db.ts
ZeroGlobalRow ==
    [total_tips_volume |-> 0, total_tips_count |-> 0,
     total_donations_volume |-> 0, total_donations_count |-> 0,
     total_crowdfunding_volume |-> 0, total_crowdfunding_count |-> 0]

GlobalColumn(f) ==
    CASE f = "tipsVolume" -> "total_tips_volume"
      [] f = "tipsCount" -> "total_tips_count"
      [] f = "donationsVolume" -> "total_donations_volume"
      [] f = "donationsCount" -> "total_donations_count"
      [] f = "crowdfundingVolume" -> "total_crowdfunding_volume"
      [] OTHER -> "total_crowdfunding_count"

\* The variant whose UPDATE sets col = $n.
updateGlobalStatsSetting(gs, spaceId, stats) ==
    IF DOMAIN stats = {} THEN gs
    ELSE LET withRow == IF spaceId \in DOMAIN gs THEN gs
                        ELSE gs @@ (spaceId :> ZeroGlobalRow)
         IN [withRow EXCEPT ![spaceId] =
                [c \in DOMAIN ZeroGlobalRow |->
                    LET fs == {f \in DOMAIN stats : GlobalColumn(f) = c}
                    IN IF fs = {} THEN @[c] ELSE stats[CHOOSE f \in fs : TRUE]]]

\* INSERT ... ON CONFLICT DO NOTHING, then UPDATE ... SET col = col + $n.
updateGlobalStats(gs, spaceId, stats) ==
    IF DOMAIN stats = {} THEN gs
    ELSE LET withRow == IF spaceId \in DOMAIN gs THEN gs
                        ELSE gs @@ (spaceId :> ZeroGlobalRow)
         IN [withRow EXCEPT ![spaceId] =
                [c \in DOMAIN ZeroGlobalRow |->
                    LET fs == {f \in DOMAIN stats : GlobalColumn(f) = c}
                    IN IF fs = {} THEN @[c] ELSE @[c] + stats[CHOOSE f \in fs : TRUE]]]

ZeroUserRow ==
    [total_sent |-> 0, total_received |-> 0, tips_sent |-> 0, tips_received |-> 0,
     donations |-> 0, tips_sent_amount |-> 0, tips_received_amount |-> 0,
     donations_sent_amount |-> 0, donations_received_amount |-> 0]

UserColumn(f) ==
    CASE f = "sentAmount" -> "total_sent"
      [] f = "receivedAmount" -> "total_received"
      [] f = "tipsSent" -> "tips_sent"
      [] f = "tipsReceived" -> "tips_received"
      [] f = "donations" -> "donations"
      [] f = "tipsSentAmount" -> "tips_sent_amount"
      [] f = "tipsReceivedAmount" -> "tips_received_amount"
      [] f = "donationsSentAmount" -> "donations_sent_amount"
      [] OTHER -> "donations_received_amount"

\* INSERT ... VALUES (zeros) ON CONFLICT (space_id, user_id) DO UPDATE SET
\* col = user_stats.col + $n: the increments are in the conflict arm only.
upsertUserStats(us, spaceId, userId, stats) ==
    LET key == <<spaceId, userId>>
    IN IF key \notin DOMAIN us THEN us @@ (key :> ZeroUserRow)
       ELSE [us EXCEPT ![key] =
                [c \in DOMAIN ZeroUserRow |->
                    LET fs == {f \in DOMAIN stats : UserColumn(f) = c}
                    IN IF fs = {} THEN @[c] ELSE @[c] + stats[CHOOSE f \in fs : TRUE]]]

createPaymentRequest(pr, id, amount) ==
    pr @@ (id :> [amount |-> amount, total_collected |-> 0,
                  is_completed |-> FALSE, completed_at |-> NoTime])

\* One transaction: INSERT INTO contributions, UPDATE payment_requests
\* RETURNING *.  The insert violates the foreign key when the request does
\* not exist; then the transaction is rolled back and the call throws.
addContributionThrows(pr, data) == data.requestId \notin DOMAIN pr

\* The variant that stamps completed_at whenever the goal is reached.
addContributionRequestsRestamping(pr, data, t) ==
    [pr EXCEPT ![data.requestId] =
        [amount |-> @.amount,
         total_collected |-> @.total_collected + data.amount,
         is_completed |-> (@.total_collected + data.amount) >= @.amount,
         completed_at |-> IF (@.total_collected + data.amount) >= @.amount
                          THEN t ELSE @.completed_at]]

addContributionRequests(pr, data, t) ==
    [pr EXCEPT ![data.requestId] =
        [amount |-> @.amount,
         total_collected |-> @.total_collected + data.amount,
         is_completed |-> (@.total_collected + data.amount) >= @.amount,
         completed_at |-> IF (@.total_collected + data.amount) >= @.amount
                             /\ @.completed_at = NoTime
                          THEN t ELSE @.completed_at]]

\* The variant that keeps no record of the contribution.
addContributionRowsDropping(cs, data) == cs

addContributionRows(cs, data) ==
    Append(cs, [request_id |-> data.requestId,
                contributor_id |-> data.contributorId, amount |-> data.amount])

NoRow ==
    [spaceId |-> "", type |-> "", userId |-> NoUser, data |-> [usdAmount |-> 0],
     messageId |-> NoRef, transactionMessageId |-> NoRef, status |-> "",
     createdAt |-> NoTime]

\* The variant with ON CONFLICT (id) DO NOTHING.
savePendingTransactionIgnoring(st, spaceId, id, type, userId, data, messageId, t) ==
    IF id \in DOMAIN st THEN st
    ELSE st @@ (id :> [spaceId |-> spaceId, type |-> type, userId |-> userId,
                       data |-> data, messageId |-> messageId,
                       transactionMessageId |-> NoRef, status |-> "pending",
                       createdAt |-> t])

\* The variant whose conflict arm also takes status = EXCLUDED.status.
savePendingTransactionResetting(st, spaceId, id, type, userId, data, messageId, t) ==
    IF id \in DOMAIN st
    THEN [st EXCEPT ![id].data = data, ![id].messageId = messageId,
                    ![id].status = "pending"]
    ELSE st @@ (id :> [spaceId |-> spaceId, type |-> type, userId |-> userId,
                       data |-> data, messageId |-> messageId,
                       transactionMessageId |-> NoRef, status |-> "pending",
                       createdAt |-> t])

\* INSERT ... VALUES (..., 'pending') ON CONFLICT (id) DO UPDATE SET data,
\* message_id (and channel_id): the status and created_at of an existing row
\* are left as they are.
savePendingTransaction(st, spaceId, id, type, userId, data, messageId, t) ==
    IF id \in DOMAIN st
    THEN [st EXCEPT ![id].data = data, ![id].messageId = messageId]
    ELSE st @@ (id :> [spaceId |-> spaceId, type |-> type, userId |-> userId,
                       data |-> data, messageId |-> messageId,
                       transactionMessageId |-> NoRef, status |-> "pending",
                       createdAt |-> t])

getPendingTransaction(st, id) ==
    IF id \in DOMAIN st THEN [found |-> TRUE, row |-> st[id]]
    ELSE [found |-> FALSE, row |-> NoRow]

\* The variant that does not write the data back.
updatePendingTransactionLosing(st, id, data) == st

updatePendingTransaction(st, id, data) ==
    IF id \in DOMAIN st THEN [st EXCEPT ![id].data = data] ELSE st

\* UPDATE pending_transactions SET status = $1 WHERE id = $2
updatePendingTransactionStatus(st, id, status) ==
    IF id \in DOMAIN st THEN [st EXCEPT ![id].status = status] ELSE st

updateTransactionMessageId(st, id, transactionMessageId) ==
    IF id \in DOMAIN st
    THEN [st EXCEPT ![id].transactionMessageId = transactionMessageId] ELSE st

\* The variant that deletes nothing.
deletePendingTransactionKeeping(st, id) == st

deletePendingTransaction(st, id) ==
    [i \in DOMAIN st \ {id} |-> st[i]]

\* DELETE ... WHERE created_at < NOW() - INTERVAL '1 hour'
cleanupOldTransactions(st, t) ==
    [i \in {j \in DOMAIN st : ~(st[j].createdAt < t - PurgeAge)} |-> st[i]]

\* ------------------------------------------------------------ handler tasks
MsgKinds == {"cancelled", "confirmError", "success", "update", "noHash",
             "depositFailed", "refunded", "refundFailed"}

IdleTask ==
    [pc |-> "idle", requestId |-> <<>>, button |-> "", txId |-> <<>>,
     spaceId |-> "", txHash |-> FALSE, outcome |-> "", pendingTx |-> NoRow,
     n |-> 0, justCompleted |-> FALSE, late |-> FALSE]

At(t, pc) == tasks[t].pc = pc
\* A new handler takes the first free task; which one is of no consequence.
Free(t) == At(t, "idle") /\ \A u \in Tasks : u < t => ~At(u, "idle")
Goto(t, pc) == tasks' = [tasks EXCEPT ![t].pc = pc]
Finish(t) == tasks' = [tasks EXCEPT ![t] = IdleTask]
Count(id, what) == hist' = [hist EXCEPT ![id][what] = @ + 1]
Spend(what) == budget' = [budget EXCEPT ![what] = @ - 1]

TypeOf(id) == IF Kind(id) = "contrib" THEN "contribute" ELSE Kind(id)

Start(events) ==
    /\ store = EmptyMap
    /\ globalStats = EmptyMap
    /\ userStats = EmptyMap
    /\ paymentRequests = EmptyMap
    /\ contributions = <<>>
    /\ ui = {}
    /\ txRequests = {}
    /\ posted = [id \in Ids |-> [k \in MsgKinds |-> 0]]
    /\ chain = [id \in Ids |-> [batch |-> 0, paid |-> 0, refund |-> 0]]
    /\ tasks = [t \in Tasks |-> IdleTask]
    /\ now = 0
    /\ hist = [id \in Ids |-> [opens |-> 0, reopens |-> 0, repeats |-> 0,
                               requests |-> 0, promptRemovals |-> 0,
                               earlyCancels |-> 0, lateCancels |-> 0,
                               unknown |-> 0, overlaps |-> 0, global |-> 0,
                               sender |-> 0, recipient |-> 0, contrib |-> 0,
                               marked |-> {}, crashes |-> 0, interrupted |-> 0,
                               crashMarkers |-> 0, discarded |-> 0]]
    /\ budget = [events |-> events, faults |-> MaxFaults, crashes |-> MaxCrashes]
    /\ ethPriceCache = [price |-> <<0>>, timestamp |-> 0]
    /\ priceCalls = [call |-> [c \in Callers |-> IdleCall], writes |-> 0,
                     fetches |-> 0,
                     lastFetch |-> [price |-> Undefined, timestamp |-> 0]]

Init == Start(MaxEvents)

\* ------------------------------------------------------------ getEthPrice
\* A caller enters getEthPrice: a valid cached price is returned at once,
\* otherwise the request to the price service is sent.
GetEthPrice(c) ==
    /\ priceCalls.call[c].pc = "idle"
    /\ budget.events > 0
    /\ budget' = [budget EXCEPT !.events = @ - 1]
    /\ priceCalls' = [priceCalls EXCEPT !.call[c] =
          IF CacheIsValid(ethPriceCache, now)
          THEN [IdleCall EXCEPT !.pc = "done", !.started = now,
                                !.value = ethPriceCache.price,
                                !.writes = priceCalls.writes]
          ELSE [IdleCall EXCEPT !.pc = "fetching", !.started = now]]
    /\ UNCHANGED <<ethPriceCache, now, store, globalStats, userStats, paymentRequests, contributions,
                   ui, txRequests, posted, chain, tasks, hist>>

\* The request settles and the call returns.
FetchSettles(c, outcome) ==
    /\ priceCalls.call[c].pc = "fetching"
    /\ LET r == getEthPriceTry(ethPriceCache, priceCalls.call[c].started, outcome)
       IN /\ ethPriceCache' = r.cache
          /\ priceCalls' = [priceCalls EXCEPT
                !.call[c] = [@ EXCEPT !.pc = "done", !.threw = r.threw,
                                      !.value = r.value,
                                      !.fetched = outcome.kind,
                                      !.writes = priceCalls.writes],
                !.writes = IF outcome.kind = "usd" /\ GreaterThanZero(outcome.usd)
                           THEN 1 ELSE @,
                !.fetches = IF outcome.kind = "usd" THEN 1 ELSE @,
                !.lastFetch = IF outcome.kind = "usd"
                              THEN [price |-> outcome.usd,
                                    timestamp |-> priceCalls.call[c].started]
                              ELSE @]
    /\ UNCHANGED <<now, budget, store, globalStats, userStats, paymentRequests, contributions,
                   ui, txRequests, posted, chain, tasks, hist>>

\* The caller goes on with the value it was given.
PriceTaken(c) ==
    /\ priceCalls.call[c].pc = "done"
    /\ priceCalls' = [priceCalls EXCEPT !.call[c] = IdleCall]
    /\ UNCHANGED <<ethPriceCache, now, budget, store, globalStats, userStats, paymentRequests, contributions,
                   ui, txRequests, posted, chain, tasks, hist>>

PriceTick(d) ==
    /\ budget.events > 0
    /\ budget' = [budget EXCEPT !.events = @ - 1]
    /\ now' = now + d
    /\ UNCHANGED <<ethPriceCache, priceCalls, store, globalStats, userStats, paymentRequests, contributions,
                   ui, txRequests, posted, chain, tasks, hist>>

InitPrice == Start(MaxEventsPrice)

NextPrice ==
    \/ \E c \in Callers : GetEthPrice(c)
    \/ \E c \in Callers, outcome \in FetchOutcomes : FetchSettles(c, outcome)
    \/ \E c \in Callers : PriceTaken(c)
    \/ \E d \in {1, PRICE_CACHE_DURATION} : PriceTick(d)

SpecPrice == InitPrice /\ [][NextPrice]_vars

\* ------------------------------------------------------ the command layer
Opened == {id \in Ids : hist[id].opens > 0}

\* A payment request is created by its own command, before contributions to
\* it are opened.
CreatePaymentRequest ==
    /\ Opened = {}
    /\ RequestId \notin DOMAIN paymentRequests
    /\ paymentRequests' = createPaymentRequest(paymentRequests, RequestId, GoalAmount)
    /\ UNCHANGED <<ethPriceCache, priceCalls, store, globalStats, userStats, contributions, ui, txRequests,
                   posted, chain, tasks, now, hist, budget>>

\* The command layer sends the confirmation form and saves the record with
\* the reference of the form.
Open(id, spaceId, data) ==
    /\ budget.events > 0
    /\ id \in Opened \/ Cardinality(Opened) < MaxIds
    /\ Kind(id) = "contrib" => data.requestId \in DOMAIN paymentRequests
    /\ Spend("events")
    /\ store' = savePendingTransaction(store, spaceId, id, TypeOf(id), Sender, data,
                                       PromptRef(id), now)
    /\ ui' = ui \cup {PromptRef(id)}
    /\ hist' = [hist EXCEPT ![id].opens = @ + 1,
                            ![id].reopens = IF id \in DOMAIN store
                                               /\ store[id].status # "pending"
                                            THEN @ + 1 ELSE @,
                            ![id].repeats = IF id \in DOMAIN store
                                               /\ store[id].status = "pending"
                                            THEN @ + 1 ELSE @]
    /\ UNCHANGED <<ethPriceCache, priceCalls, globalStats, userStats, paymentRequests, contributions,
                   txRequests, posted, chain, tasks, now>>

Tick(d) ==
    /\ budget.events > 0
    /\ Spend("events")
    /\ now' = now + d
    /\ UNCHANGED <<ethPriceCache, priceCalls, store, globalStats, userStats, paymentRequests, contributions,
                   ui, txRequests, posted, chain, tasks, hist>>

Cleanup ==
    /\ cleanupOldTransactions(store, now) # store
    /\ store' = cleanupOldTransactions(store, now)
    /\ UNCHANGED <<ethPriceCache, priceCalls, globalStats, userStats, paymentRequests, contributions, ui,
                   txRequests, posted, chain, tasks, now, hist, budget>>

\* ------------------------------------- handleFormResponse (handlers.ts 20-228)
TxId(id) == <<"tx">> \o id

\* handler.removeEvent inside its own try/catch: the element goes, or the
\* call fails, which is one of the faults of a behaviour, and the element
\* stays.
RemoveEvent(shown, ref, removed) ==
    IF ref # NoRef /\ removed THEN shown \ {ref} ELSE shown

Removal(removed) ==
    /\ ~removed => budget.faults > 0
    /\ budget' = IF removed THEN budget ELSE [budget EXCEPT !.faults = @ - 1]

\* A click on Confirm or Cancel of the form of request id; a form that was
\* removed may still be shown from the client's cache and clicked.
Click(t, id, button) ==
    /\ Free(t)
    /\ budget.events > 0
    /\ id \in Opened
    /\ Spend("events")
    /\ tasks' = [tasks EXCEPT ![t] =
                    [IdleTask EXCEPT !.pc = "f_lookup", !.requestId = id,
                                     !.button = button,
                                     !.late = hist[id].requests > 0]]
    /\ UNCHANGED <<ethPriceCache, priceCalls, store, globalStats, userStats, paymentRequests, contributions,
                   ui, txRequests, posted, chain, now, hist>>

\* lines 37-78: the lookup and the dispatch on the button
FormLookup(t) ==
    /\ At(t, "f_lookup")
    /\ LET got == getPendingTransaction(store, tasks[t].requestId)
       IN tasks' = [tasks EXCEPT ![t] =
            IF ~got.found THEN IdleTask
            ELSE [@ EXCEPT !.pendingTx = got.row,
                           !.pc = IF tasks[t].button = "cancel"
                                  THEN "f_cancel_delete" ELSE "f_request"]]
    /\ UNCHANGED <<ethPriceCache, priceCalls, store, globalStats, userStats, paymentRequests, contributions,
                   ui, txRequests, posted, chain, now, hist, budget>>

\* line 61
CancelDelete(t) ==
    /\ At(t, "f_cancel_delete")
    /\ store' = deletePendingTransaction(store, tasks[t].requestId)
    /\ hist' = [hist EXCEPT ![tasks[t].requestId].lateCancels =
                                IF tasks[t].late THEN @ + 1 ELSE @,
                            ![tasks[t].requestId].earlyCancels =
                                IF hist[tasks[t].requestId].requests = 0
                                   /\ tasks[t].pendingTx.status = "pending"
                                THEN @ + 1 ELSE @]
    /\ Goto(t, "f_cancel_msg")
    /\ UNCHANGED <<ethPriceCache, priceCalls, globalStats, userStats, paymentRequests, contributions, ui,
                   txRequests, posted, chain, now, budget>>

\* lines 62-74
CancelNotify(t, removed) ==
    /\ At(t, "f_cancel_msg")
    /\ posted' = [posted EXCEPT ![tasks[t].requestId].cancelled = @ + 1]
    /\ ui' = RemoveEvent(ui, tasks[t].pendingTx.messageId, removed)
    /\ Removal(removed)
    /\ Finish(t)
    /\ UNCHANGED <<ethPriceCache, priceCalls, store, globalStats, userStats, paymentRequests, contributions,
                   txRequests, chain, now, hist>>

\* lines 81-106, 116-136, 148-168, 178-198: getEthPrice, then the transaction
\* request "tx-<requestId>" is sent, whatever the kind and the status.
ConfirmRequest(t) ==
    /\ At(t, "f_request")
    /\ txRequests' = txRequests \cup {TxId(tasks[t].requestId)}
    /\ ui' = ui \cup {TxRef(TxId(tasks[t].requestId))}
    /\ Count(tasks[t].requestId, "requests")
    /\ Goto(t, "f_savemsg")
    /\ UNCHANGED <<ethPriceCache, priceCalls, store, globalStats, userStats, paymentRequests, contributions,
                   posted, chain, now, budget>>

\* lines 109-112 (139-142, 171-174, 201-204), then lines 211-221: the form is
\* removed after the request was sent
ConfirmSaveMessageId(t, removed) ==
    /\ At(t, "f_savemsg")
    /\ store' = updateTransactionMessageId(store, tasks[t].requestId,
                                           TxRef(TxId(tasks[t].requestId)))
    /\ ui' = RemoveEvent(ui, tasks[t].pendingTx.messageId, removed)
    /\ Removal(removed)
    /\ hist' = [hist EXCEPT ![tasks[t].requestId].promptRemovals =
                                IF tasks[t].pendingTx.messageId # NoRef
                                THEN @ + 1 ELSE @]
    /\ Finish(t)
    /\ UNCHANGED <<ethPriceCache, priceCalls, globalStats, userStats, paymentRequests, contributions,
                   txRequests, posted, chain, now>>

\* lines 223-226
ConfirmError(t) ==
    /\ At(t, "f_errmsg")
    /\ posted' = [posted EXCEPT ![tasks[t].requestId].confirmError = @ + 1]
    /\ Finish(t)
    /\ UNCHANGED <<ethPriceCache, priceCalls, store, globalStats, userStats, paymentRequests, contributions,
                   ui, txRequests, chain, now, hist, budget>>

\* ------------------------- handleTransactionResponse (handlers.ts 231-669)
\* lines 257-266: txId.split('-'), "tx-<type>-<eventId>"
ParseTxId(parts) ==
    IF Len(parts) >= 3 /\ parts[1] = "tx"
    THEN [ok |-> TRUE, originalRequestId |-> <<parts[2], parts[3]>>]
    ELSE [ok |-> FALSE, originalRequestId |-> <<>>]

\* What the user's wallet reports: a transaction that ran, one that failed on
\* chain, one that was never sent (no hash).  Only the split branch reads the
\* hash for more than the text of a message.
ResponsesOf(txId) ==
    {[txHash |-> TRUE, outcome |-> "success"], [txHash |-> TRUE, outcome |-> "failure"]}
    \cup IF txId[2] = "tipsplit" THEN {[txHash |-> FALSE, outcome |-> "failure"]} ELSE {}

\* The settlement layer answers a transaction request that was sent; it may
\* answer the same request again.  The event carries its own space id.
Deliver(t, txId, spaceId, txHash, outcome) ==
    /\ Free(t)
    /\ budget.events > 0
    /\ txId \in txRequests
    /\ Spend("events")
    /\ tasks' = [tasks EXCEPT ![t] =
                    [IdleTask EXCEPT !.pc = "tx_lookup", !.txId = txId,
                                     !.spaceId = spaceId, !.txHash = txHash,
                                     !.outcome = outcome]]
    /\ hist' = [hist EXCEPT ![ParseTxId(txId).originalRequestId].overlaps =
                                IF \E u \in Tasks : tasks[u].txId = txId
                                THEN @ + 1 ELSE @]
    /\ UNCHANGED <<ethPriceCache, priceCalls, store, globalStats, userStats, paymentRequests, contributions,
                   ui, txRequests, posted, chain, now>>

\* The variant that stops at a processed record only.
PassesStatusCheckProcessedOnly(row) == row.status # "processed"

\* lines 286-297: only a pending record is processed
PassesStatusCheck(row) ==
    IF row.status = "processed" THEN FALSE
    ELSE row.status = "pending"

\* lines 300, 397, 462-491, 618, 662: the branch taken for a request id; the
\* split branch first looks for the hash and awaits the receipt of the deposit
FirstStepSkippingReceipt(id, txHash, outcome) ==
    CASE Kind(id) = "contrib" -> "c_add"
      [] Kind(id) = "tip" -> "t_global"
      [] Kind(id) = "tipsplit" -> IF ~txHash THEN "s_nohash" ELSE "s_execute"
      [] Kind(id) = "donate" -> "d_global"
      [] OTHER -> "idle"

FirstStep(id, txHash, outcome) ==
    CASE Kind(id) = "contrib" -> "c_add"
      [] Kind(id) = "tip" -> "t_global"
      [] Kind(id) = "tipsplit" ->
            IF ~txHash THEN "s_nohash"
            ELSE IF outcome # "success" THEN "s_depfail" ELSE "s_execute"
      [] Kind(id) = "donate" -> "d_global"
      [] OTHER -> "idle"

\* lines 257-297
TxLookup(t) ==
    /\ At(t, "tx_lookup")
    /\ LET parsed == ParseTxId(tasks[t].txId)
           got == getPendingTransaction(store, parsed.originalRequestId)
           first == FirstStep(parsed.originalRequestId, tasks[t].txHash, tasks[t].outcome)
       IN /\ tasks' = [tasks EXCEPT ![t] =
               IF ~parsed.ok \/ ~got.found \/ ~PassesStatusCheck(got.row)
                  \/ first = "idle"
               THEN IdleTask
               ELSE [@ EXCEPT !.requestId = parsed.originalRequestId,
                              !.pendingTx = got.row, !.pc = first]]
          /\ hist' = IF parsed.ok /\ ~got.found
                      THEN [hist EXCEPT ![parsed.originalRequestId].unknown = @ + 1]
                      ELSE IF parsed.ok /\ ~PassesStatusCheck(got.row)
                      THEN [hist EXCEPT ![parsed.originalRequestId].discarded = @ + 1]
                      ELSE hist
    /\ UNCHANGED <<ethPriceCache, priceCalls, store, globalStats, userStats, paymentRequests, contributions,
                   ui, txRequests, posted, chain, now, budget>>

Data(t) == tasks[t].pendingTx.data

\* ---- tip, lines 397-422
TipGlobalStats(t) ==
    /\ At(t, "t_global")
    /\ globalStats' = updateGlobalStats(globalStats, tasks[t].spaceId,
                        [tipsVolume |-> Data(t).usdAmount, tipsCount |-> 1])
    /\ Count(tasks[t].requestId, "global")
    /\ Goto(t, "t_sender")
    /\ UNCHANGED <<ethPriceCache, priceCalls, store, userStats, paymentRequests, contributions, ui,
                   txRequests, posted, chain, now, budget>>

TipSenderStats(t) ==
    /\ At(t, "t_sender")
    /\ userStats' = upsertUserStats(userStats, tasks[t].spaceId, tasks[t].pendingTx.userId,
                        [sentAmount |-> Data(t).usdAmount, tipsSent |-> 1,
                         tipsSentAmount |-> Data(t).usdAmount])
    /\ Count(tasks[t].requestId, "sender")
    /\ Goto(t, IF Data(t).recipientId # NoUser THEN "t_recipient" ELSE "ok_final")
    /\ UNCHANGED <<ethPriceCache, priceCalls, store, globalStats, paymentRequests, contributions, ui,
                   txRequests, posted, chain, now, budget>>

TipRecipientStats(t) ==
    /\ At(t, "t_recipient")
    /\ userStats' = upsertUserStats(userStats, tasks[t].spaceId, Data(t).recipientId,
                        [receivedAmount |-> Data(t).usdAmount, tipsReceived |-> 1,
                         tipsReceivedAmount |-> Data(t).usdAmount])
    /\ Count(tasks[t].requestId, "recipient")
    /\ Goto(t, "ok_final")
    /\ UNCHANGED <<ethPriceCache, priceCalls, store, globalStats, paymentRequests, contributions, ui,
                   txRequests, posted, chain, now, budget>>

\* ---- donation, lines 618-633
DonateGlobalStats(t) ==
    /\ At(t, "d_global")
    /\ globalStats' = updateGlobalStats(globalStats, tasks[t].spaceId,
                        [donationsVolume |-> Data(t).usdAmount, donationsCount |-> 1])
    /\ Count(tasks[t].requestId, "global")
    /\ Goto(t, "d_user")
    /\ UNCHANGED <<ethPriceCache, priceCalls, store, userStats, paymentRequests, contributions, ui,
                   txRequests, posted, chain, now, budget>>

DonateUserStats(t) ==
    /\ At(t, "d_user")
    /\ userStats' = upsertUserStats(userStats, tasks[t].spaceId, tasks[t].pendingTx.userId,
                        [donations |-> 1, donationsSentAmount |-> Data(t).usdAmount])
    /\ Count(tasks[t].requestId, "sender")
    /\ Goto(t, "ok_final")
    /\ UNCHANGED <<ethPriceCache, priceCalls, store, globalStats, paymentRequests, contributions, ui,
                   txRequests, posted, chain, now, budget>>

\* ---- contribution, lines 300-336
ContribArgs(t) ==
    [requestId |-> Data(t).requestId, contributorId |-> Data(t).contributorId,
     amount |-> Data(t).contributionUsd]

\* lines 314-318: is_completed, and completed_at less than 10 seconds ago
JustCompleted(request, t) ==
    /\ request.is_completed
    /\ request.completed_at # NoTime
    /\ t - request.completed_at < JustCompletedWindow

ContribAdd(t) ==
    /\ At(t, "c_add")
    /\ IF addContributionThrows(paymentRequests, ContribArgs(t))
       THEN /\ Finish(t)
            /\ UNCHANGED <<ethPriceCache, priceCalls, paymentRequests, contributions, hist>>
       ELSE /\ paymentRequests' = addContributionRequests(paymentRequests, ContribArgs(t), now)
            /\ contributions' = addContributionRows(contributions, ContribArgs(t))
            /\ Count(tasks[t].requestId, "contrib")
            /\ tasks' = [tasks EXCEPT ![t].pc = "c_global",
                            ![t].justCompleted =
                                JustCompleted(paymentRequests'[Data(t).requestId], now)]
    /\ UNCHANGED <<ethPriceCache, priceCalls, store, globalStats, userStats, ui, txRequests, posted, chain,
                   now, budget>>

ContribGlobalStats(t) ==
    /\ At(t, "c_global")
    /\ globalStats' = updateGlobalStats(globalStats, tasks[t].spaceId,
                        [crowdfundingVolume |-> Data(t).contributionUsd,
                         crowdfundingCount |-> IF tasks[t].justCompleted THEN 1 ELSE 0])
    /\ Count(tasks[t].requestId, "global")
    /\ Goto(t, "c_contributor")
    /\ UNCHANGED <<ethPriceCache, priceCalls, store, userStats, paymentRequests, contributions, ui,
                   txRequests, posted, chain, now, budget>>

ContribContributorStats(t) ==
    /\ At(t, "c_contributor")
    /\ userStats' = upsertUserStats(userStats, tasks[t].spaceId, Data(t).contributorId,
                        [sentAmount |-> Data(t).contributionUsd, tipsSent |-> 1,
                         tipsSentAmount |-> Data(t).contributionUsd])
    /\ Count(tasks[t].requestId, "sender")
    /\ Goto(t, "c_creator")
    /\ UNCHANGED <<ethPriceCache, priceCalls, store, globalStats, paymentRequests, contributions, ui,
                   txRequests, posted, chain, now, budget>>

ContribCreatorStats(t) ==
    /\ At(t, "c_creator")
    /\ userStats' = upsertUserStats(userStats, tasks[t].spaceId, Data(t).creatorId,
                        [receivedAmount |-> Data(t).contributionUsd, tipsReceived |-> 1,
                         tipsReceivedAmount |-> Data(t).contributionUsd])
    /\ Count(tasks[t].requestId, "recipient")
    /\ Goto(t, "ok_final")
    /\ UNCHANGED <<ethPriceCache, priceCalls, store, globalStats, paymentRequests, contributions, ui,
                   txRequests, posted, chain, now, budget>>

\* ---- split tip, lines 462-616: one deposit to the bot, one batch transfer
\* lines 467-472 (no hash) and 481-489 (the deposit failed): a notice, then
\* the status
SplitReject(t) ==
    /\ tasks[t].pc \in {"s_nohash", "s_depfail"}
    /\ posted' = [posted EXCEPT ![tasks[t].requestId] =
                    IF At(t, "s_nohash") THEN [@ EXCEPT !.noHash = @ + 1]
                    ELSE [@ EXCEPT !.depositFailed = @ + 1]]
    /\ store' = updatePendingTransactionStatus(store, tasks[t].requestId, "failed")
    /\ Finish(t)
    /\ UNCHANGED <<ethPriceCache, priceCalls, globalStats, userStats, paymentRequests, contributions, ui,
                   txRequests, chain, now, hist, budget>>

\* lines 496-517.  execute() is rejected and throws ("rejected"); or the batch
\* is sent and its receipt awaited, whose status is not looked at: the batch
\* ran ("success"), was reverted ("reverted"), or ran while the wait for its
\* receipt threw ("unconfirmed").
BatchResults == {"rejected", "success", "reverted", "unconfirmed"}

SplitExecuteBatch(t, result) ==
    /\ At(t, "s_execute")
    /\ chain' = IF result = "rejected" THEN chain
                ELSE [chain EXCEPT ![tasks[t].requestId].batch = @ + 1,
                                   ![tasks[t].requestId].paid =
                                       IF result = "reverted" THEN @ ELSE @ + 1]
    /\ Goto(t, IF result \in {"rejected", "unconfirmed"} THEN "s_refund" ELSE "s_global")
    /\ UNCHANGED <<ethPriceCache, priceCalls, store, globalStats, userStats, paymentRequests, contributions,
                   ui, txRequests, posted, now, hist, budget>>

\* lines 522-525
SplitGlobalStats(t) ==
    /\ At(t, "s_global")
    /\ globalStats' = updateGlobalStats(globalStats, tasks[t].spaceId,
                        [tipsVolume |-> Data(t).totalUsd, tipsCount |-> 1])
    /\ Count(tasks[t].requestId, "global")
    /\ Goto(t, "s_sender")
    /\ UNCHANGED <<ethPriceCache, priceCalls, store, userStats, paymentRequests, contributions, ui,
                   txRequests, posted, chain, now, budget>>

\* lines 528-532
SplitSenderStats(t) ==
    /\ At(t, "s_sender")
    /\ userStats' = upsertUserStats(userStats, tasks[t].spaceId, tasks[t].pendingTx.userId,
                        [sentAmount |-> Data(t).totalUsd, tipsSent |-> 1,
                         tipsSentAmount |-> Data(t).totalUsd])
    /\ Count(tasks[t].requestId, "sender")
    /\ tasks' = [tasks EXCEPT ![t].pc = "s_recips", ![t].n = 1]
    /\ UNCHANGED <<ethPriceCache, priceCalls, store, globalStats, paymentRequests, contributions, ui,
                   txRequests, posted, chain, now, budget>>

\* lines 535-548: one pass of the loop over data.recipients
SplitRecipientStats(t) ==
    /\ At(t, "s_recips")
    /\ LET r == Data(t).recipients[tasks[t].n]
       IN userStats' = upsertUserStats(userStats, tasks[t].spaceId, r.userId,
                        [receivedAmount |-> r.usdAmount, tipsReceived |-> 1,
                         tipsReceivedAmount |-> r.usdAmount])
    /\ Count(tasks[t].requestId, "recipient")
    /\ tasks' = IF tasks[t].n = Len(Data(t).recipients)
                THEN [tasks EXCEPT ![t].pc = "ok_final", ![t].n = 0]
                ELSE [tasks EXCEPT ![t].n = @ + 1]
    /\ UNCHANGED <<ethPriceCache, priceCalls, store, globalStats, paymentRequests, contributions, ui,
                   txRequests, posted, chain, now, budget>>

\* lines 582-612: the catch of the batch.  The refund to the sender is sent,
\* confirmed and announced ("refunded"); or sending it throws ("rejected");
\* or it is sent and the wait for its receipt throws ("unconfirmed"); in
\* the last two cases the inner catch announces that the refund failed.
RefundResults == {"refunded", "rejected", "unconfirmed"}

SplitRefund(t, result) ==
    /\ At(t, "s_refund")
    /\ chain' = IF result = "rejected" THEN chain
                ELSE [chain EXCEPT ![tasks[t].requestId].refund = @ + 1]
    /\ posted' = [posted EXCEPT ![tasks[t].requestId] =
                    IF result = "refunded" THEN [@ EXCEPT !.refunded = @ + 1]
                    ELSE [@ EXCEPT !.refundFailed = @ + 1]]
    /\ Goto(t, "s_failed_status")
    /\ UNCHANGED <<ethPriceCache, priceCalls, store, globalStats, userStats, paymentRequests, contributions,
                   ui, txRequests, now, hist, budget>>

\* line 615
SplitMarkFailed(t) ==
    /\ At(t, "s_failed_status")
    /\ store' = updatePendingTransactionStatus(store, tasks[t].requestId, "failed")
    /\ Finish(t)
    /\ UNCHANGED <<ethPriceCache, priceCalls, globalStats, userStats, paymentRequests, contributions, ui,
                   txRequests, posted, chain, now, hist, budget>>

\* ---- the end of every successful branch: the success message (lines 339-347,
\* 436-441, 561-565, 636-641; for a contribution also the progress message,
\* lines 350-376), the status (lines 380, 445, 568, 645) and the removal of
\* the transaction form (lines 384-390, 449-455, 571-577, 649-655)
MarkProcessed(t, removed) ==
    /\ At(t, "ok_final")
    /\ posted' = [posted EXCEPT ![tasks[t].requestId] =
                    [@ EXCEPT !.success = @ + 1,
                              !.update = IF Kind(tasks[t].requestId) = "contrib"
                                            /\ Data(t).requestId \in DOMAIN paymentRequests
                                         THEN @ + 1 ELSE @]]
    /\ store' = updatePendingTransactionStatus(store, tasks[t].requestId, "processed")
    /\ ui' = RemoveEvent(ui, tasks[t].pendingTx.transactionMessageId, removed)
    /\ Removal(removed)
    /\ Finish(t)
    /\ UNCHANGED <<ethPriceCache, priceCalls, globalStats, userStats, paymentRequests, contributions,
                   txRequests, chain, now, hist>>

\* ---- exceptions: an awaited call (database, chat transport) fails and the
\* step has no effect.  Control goes to the enclosing catch: line 223 (the
\* confirm branch), line 582 (the batch try of a split), line 666 (the rest
\* of handleTransactionResponse); an exception of the cancel branch or of a
\* catch block leaves the handler.
InBatchTry(task) ==
    \/ task.pc \in {"s_execute", "s_global", "s_sender", "s_recips"}
    \/ task.pc = "ok_final" /\ Kind(task.requestId) = "tipsplit"

CatchTarget(task) ==
    CASE InBatchTry(task) -> "s_refund"
      [] task.pc \in {"f_request", "f_savemsg"} -> "f_errmsg"
      [] OTHER -> "idle"

Throw(t) ==
    /\ ~At(t, "idle")
    /\ budget.faults > 0
    /\ Spend("faults")
    /\ tasks' = [tasks EXCEPT ![t] =
                    IF CatchTarget(@) = "idle" THEN IdleTask
                    ELSE [@ EXCEPT !.pc = CatchTarget(tasks[t])]]
    /\ UNCHANGED <<ethPriceCache, priceCalls, store, globalStats, userStats, paymentRequests, contributions,
                   ui, txRequests, posted, chain, now, hist>>

\* ------------------------------------------------------------ specification
FormStep(t) ==
    \/ FormLookup(t) \/ CancelDelete(t) \/ ConfirmRequest(t) \/ ConfirmError(t)
    \/ \E removed \in BOOLEAN : CancelNotify(t, removed) \/ ConfirmSaveMessageId(t, removed)

TxStep(t) ==
    \/ TxLookup(t)
    \/ TipGlobalStats(t) \/ TipSenderStats(t) \/ TipRecipientStats(t)
    \/ DonateGlobalStats(t) \/ DonateUserStats(t)
    \/ ContribAdd(t) \/ ContribGlobalStats(t) \/ ContribContributorStats(t)
    \/ ContribCreatorStats(t)
    \/ SplitReject(t) \/ (\E r \in BatchResults : SplitExecuteBatch(t, r))
    \/ SplitGlobalStats(t) \/ SplitSenderStats(t) \/ SplitRecipientStats(t)
    \/ (\E r \in RefundResults : SplitRefund(t, r)) \/ SplitMarkFailed(t)
    \/ \E removed \in BOOLEAN : MarkProcessed(t, removed)

Environment ==
    \/ CreatePaymentRequest
    \/ \E id \in Ids, sp \in OpenSpaces : \E d \in PayloadsOf(id) : Open(id, sp, d)
    \/ \E d \in TickSteps : Tick(d)
    \/ Cleanup
    \/ \E t \in Tasks, id \in Ids, b \in {"confirm", "cancel"} : Click(t, id, b)
    \/ \E t \in Tasks, txId \in txRequests, sp \in Spaces :
          \E r \in ResponsesOf(txId) : Deliver(t, txId, sp, r.txHash, r.outcome)

Next ==
    \/ Environment
    \/ \E t \in Tasks : FormStep(t) \/ TxStep(t) \/ Throw(t)

Spec == Init /\ [][Next]_vars

\* The handlers under fair scheduling: the event loop runs every handler to
\* its next await, and every awaited call (database, chat, chain receipt)
\* comes back, with a result or with an exception.  Nothing obliges the
\* environment to send events or an awaited call to fail.
FairSpec ==
    Spec /\ \A t \in Tasks : WF_vars(FormStep(t)) /\ WF_vars(TxStep(t))

\* ---------------------------------------------- contributions over time
\* The handlers of the current revision at work on one contribution, with
\* room for the clock to move between two settlement callbacks.
ContribId == <<"contrib", "e4">>

InitContrib == Start(MaxEventsContrib)

EnvironmentContrib ==
    \/ CreatePaymentRequest
    \/ \E sp \in OpenSpaces, d \in ContribData : Open(ContribId, sp, d)
    \/ \E d \in TickSteps : Tick(d)
    \/ \E t \in Tasks, b \in {"confirm", "cancel"} : Click(t, ContribId, b)
    \/ \E t \in Tasks, txId \in txRequests, sp \in Spaces :
          \E r \in ResponsesOf(txId) : Deliver(t, txId, sp, r.txHash, r.outcome)

NextContrib ==
    \/ EnvironmentContrib
    \/ \E t \in Tasks :
          \/ FormStep(t)
          \/ TxLookup(t)
          \/ ContribAdd(t) \/ ContribGlobalStats(t) \/ ContribContributorStats(t)
          \/ ContribCreatorStats(t)
          \/ (\E removed \in BOOLEAN : MarkProcessed(t, removed))
          \/ Throw(t)

SpecContrib == InitContrib /\ [][NextContrib]_vars

\* ------------- the per-recipient split revision (handlers.ts 671-1137)
\* In this revision a split is settled by one transaction per recipient;
\* each callback leaves a marker in data.completedRecipients and the one
\* that finds all markers applies the ledger effect.  The specification
\* follows the split actions of this revision.
SplitId == <<"tipsplit", "e2">>
RecipientsV2 == <<"bob", "carol", "erin">>

\* The payloads of a split: the one of two recipients and one of three.
SplitDataV2 ==
    SplitData \cup
    {[totalUsd |-> 15,
      recipients |-> [i \in 1..Len(RecipientsV2) |->
                         [userId |-> RecipientsV2[i], usdAmount |-> 5]],
      completedRecipients |-> <<>>]}

InitV2 == Start(MaxEventsV2)

OpenV2(spaceId, data) ==
    /\ budget.events > 0
    /\ Spend("events")
    /\ store' = savePendingTransaction(store, spaceId, SplitId, TypeOf(SplitId), Sender,
                                       data, PromptRef(SplitId), now)
    /\ hist' = [hist EXCEPT ![SplitId].opens = @ + 1,
                            ![SplitId].reopens = IF SplitId \in DOMAIN store
                                                    /\ store[SplitId].status # "pending"
                                                 THEN @ + 1 ELSE @]
    /\ UNCHANGED <<ethPriceCache, priceCalls, globalStats, userStats, paymentRequests, contributions, ui,
                   txRequests, posted, chain, tasks, now>>

ClickV2(t, button) ==
    /\ Free(t)
    /\ budget.events > 0
    /\ SplitId \in Opened
    /\ Spend("events")
    /\ tasks' = [tasks EXCEPT ![t] =
                    [IdleTask EXCEPT !.pc = IF button = "cancel" THEN "v_cancel"
                                            ELSE "v_lookup",
                                     !.requestId = SplitId, !.button = button]]
    /\ UNCHANGED <<ethPriceCache, priceCalls, store, globalStats, userStats, paymentRequests, contributions,
                   ui, txRequests, posted, chain, now, hist>>

\* lines 711-716: the record is deleted without a lookup
CancelV2(t) ==
    /\ At(t, "v_cancel")
    /\ store' = deletePendingTransaction(store, tasks[t].requestId)
    /\ posted' = [posted EXCEPT ![tasks[t].requestId].cancelled = @ + 1]
    /\ Finish(t)
    /\ UNCHANGED <<ethPriceCache, priceCalls, globalStats, userStats, paymentRequests, contributions, ui,
                   txRequests, chain, now, hist, budget>>

\* lines 721-728
ConfirmLookupV2(t) ==
    /\ At(t, "v_lookup")
    /\ LET got == getPendingTransaction(store, tasks[t].requestId)
       IN tasks' = [tasks EXCEPT ![t] =
            IF ~got.found THEN IdleTask
            ELSE [@ EXCEPT !.pendingTx = got.row, !.pc = "v_request", !.n = 1]]
    /\ UNCHANGED <<ethPriceCache, priceCalls, store, globalStats, userStats, paymentRequests, contributions,
                   ui, txRequests, posted, chain, now, hist, budget>>

\* lines 779-803: one pass of the loop, one request "tx-<requestId>-<userId>"
TxIdV2(id, userId) == <<"tx">> \o id \o <<userId>>

ConfirmRequestV2(t) ==
    /\ At(t, "v_request")
    /\ txRequests' = txRequests \cup
          {TxIdV2(tasks[t].requestId, Data(t).recipients[tasks[t].n].userId)}
    /\ Count(tasks[t].requestId, "requests")
    /\ tasks' = IF tasks[t].n = Len(Data(t).recipients)
                THEN [tasks EXCEPT ![t] = IdleTask]
                ELSE [tasks EXCEPT ![t].n = @ + 1]
    /\ UNCHANGED <<ethPriceCache, priceCalls, store, globalStats, userStats, paymentRequests, contributions,
                   ui, posted, chain, now, budget>>

\* lines 833-836
ConfirmErrorV2(t) ==
    /\ At(t, "v_errmsg")
    /\ posted' = [posted EXCEPT ![tasks[t].requestId].confirmError = @ + 1]
    /\ Finish(t)
    /\ UNCHANGED <<ethPriceCache, priceCalls, store, globalStats, userStats, paymentRequests, contributions,
                   ui, txRequests, chain, now, hist, budget>>

\* lines 857-872: txId.split('-'), with the recipient of a split
\* The variant that takes all that follows "tx-" for the request id.
ParseTxIdV2Whole(parts) ==
    IF Len(parts) >= 3 /\ parts[1] = "tx"
    THEN [ok |-> TRUE, originalRequestId |-> SubSeq(parts, 2, Len(parts)),
          recipientUserId |-> IF Len(parts) = 4 /\ parts[2] = "tipsplit"
                              THEN parts[4] ELSE NoUser]
    ELSE [ok |-> FALSE, originalRequestId |-> <<>>, recipientUserId |-> NoUser]

ParseTxIdV2(parts) ==
    IF Len(parts) >= 3 /\ parts[1] = "tx"
    THEN [ok |-> TRUE, originalRequestId |-> <<parts[2], parts[3]>>,
          recipientUserId |-> IF Len(parts) = 4 /\ parts[2] = "tipsplit"
                              THEN parts[4] ELSE NoUser]
    ELSE [ok |-> FALSE, originalRequestId |-> <<>>, recipientUserId |-> NoUser]

DeliverV2(t, txId, spaceId) ==
    /\ Free(t)
    /\ budget.events > 0
    /\ txId \in txRequests
    /\ Spend("events")
    /\ tasks' = [tasks EXCEPT ![t] =
                    [IdleTask EXCEPT !.pc = "v_tx_lookup", !.txId = txId,
                                     !.spaceId = spaceId, !.txHash = TRUE,
                                     !.outcome = "success"]]
    /\ hist' = [hist EXCEPT ![ParseTxIdV2(txId).originalRequestId].overlaps =
                                IF \E u \in Tasks : tasks[u].txId # <<>>
                                THEN @ + 1 ELSE @]
    /\ UNCHANGED <<ethPriceCache, priceCalls, store, globalStats, userStats, paymentRequests, contributions,
                   ui, txRequests, posted, chain, now>>

\* lines 857-891 and 1026-1029: only a processed record stops the handler
TxLookupV2(t) ==
    /\ At(t, "v_tx_lookup")
    /\ LET parsed == ParseTxIdV2(tasks[t].txId)
           got == getPendingTransaction(store, parsed.originalRequestId)
       IN tasks' = [tasks EXCEPT ![t] =
            IF \/ ~parsed.ok \/ ~got.found \/ got.row.status = "processed"
               \/ Kind(parsed.originalRequestId) # "tipsplit"
               \/ parsed.recipientUserId = NoUser
            THEN IdleTask
            ELSE [@ EXCEPT !.requestId = parsed.originalRequestId,
                           !.pendingTx = got.row, !.pc = "v_marker"]]
    /\ UNCHANGED <<ethPriceCache, priceCalls, store, globalStats, userStats, paymentRequests, contributions,
                   ui, txRequests, posted, chain, now, hist, budget>>

Includes(seq, x) == \E i \in 1..Len(seq) : seq[i] = x

\* lines 1031-1046: the marker is pushed on the handler's copy of the data
\* and the whole data column is written back, unless the marker is there
\* already; then the count of markers is compared with the recipients'
SplitMarkerV2(t) ==
    /\ At(t, "v_marker")
    /\ LET recipientUserId == ParseTxIdV2(tasks[t].txId).recipientUserId
           data == Data(t)
           pushed == [data EXCEPT !.completedRecipients = Append(@, recipientUserId)]
           after == IF Includes(data.completedRecipients, recipientUserId)
                    THEN data ELSE pushed
       IN /\ store' = IF after = data THEN store
                      ELSE updatePendingTransaction(store, tasks[t].requestId, after)
          /\ tasks' = [tasks EXCEPT ![t] =
                IF Len(after.completedRecipients) = Len(after.recipients)
                THEN [@ EXCEPT !.pendingTx.data = after, !.pc = "v_global"]
                ELSE IdleTask]
          /\ hist' = [hist EXCEPT ![tasks[t].requestId].marked =
                                      @ \cup {recipientUserId}]
    /\ UNCHANGED <<ethPriceCache, priceCalls, globalStats, userStats, paymentRequests, contributions, ui,
                   txRequests, posted, chain, now, budget>>

\* lines 1050-1053
SplitGlobalStatsV2(t) ==
    /\ At(t, "v_global")
    /\ globalStats' = updateGlobalStats(globalStats, tasks[t].spaceId,
                        [tipsVolume |-> Data(t).totalUsd, tipsCount |-> 1])
    /\ Count(tasks[t].requestId, "global")
    /\ Goto(t, "v_sender")
    /\ UNCHANGED <<ethPriceCache, priceCalls, store, userStats, paymentRequests, contributions, ui,
                   txRequests, posted, chain, now, budget>>

\* lines 1056-1059
SplitSenderStatsV2(t) ==
    /\ At(t, "v_sender")
    /\ userStats' = upsertUserStats(userStats, tasks[t].spaceId, tasks[t].pendingTx.userId,
                        [sentAmount |-> Data(t).totalUsd, tipsSent |-> 1])
    /\ Count(tasks[t].requestId, "sender")
    /\ tasks' = [tasks EXCEPT ![t].pc = "v_recips", ![t].n = 1]
    /\ UNCHANGED <<ethPriceCache, priceCalls, store, globalStats, paymentRequests, contributions, ui,
                   txRequests, posted, chain, now, budget>>

\* lines 1062-1067: one pass of the loop
SplitRecipientStatsV2(t) ==
    /\ At(t, "v_recips")
    /\ LET r == Data(t).recipients[tasks[t].n]
       IN userStats' = upsertUserStats(userStats, tasks[t].spaceId, r.userId,
                        [receivedAmount |-> r.usdAmount, tipsReceived |-> 1])
    /\ Count(tasks[t].requestId, "recipient")
    /\ tasks' = IF tasks[t].n = Len(Data(t).recipients)
                THEN [tasks EXCEPT ![t].pc = "v_processed", ![t].n = 0]
                ELSE [tasks EXCEPT ![t].n = @ + 1]
    /\ UNCHANGED <<ethPriceCache, priceCalls, store, globalStats, paymentRequests, contributions, ui,
                   txRequests, posted, chain, now, budget>>

\* lines 1070-1084: the success message and the status
SplitProcessedV2(t) ==
    /\ At(t, "v_processed")
    /\ posted' = [posted EXCEPT ![tasks[t].requestId].success = @ + 1]
    /\ store' = updatePendingTransactionStatus(store, tasks[t].requestId, "processed")
    /\ Goto(t, "v_delete")
    /\ UNCHANGED <<ethPriceCache, priceCalls, globalStats, userStats, paymentRequests, contributions, ui,
                   txRequests, chain, now, hist, budget>>

\* line 1085
SplitDeleteV2(t) ==
    /\ At(t, "v_delete")
    /\ store' = deletePendingTransaction(store, tasks[t].requestId)
    /\ Finish(t)
    /\ UNCHANGED <<ethPriceCache, priceCalls, globalStats, userStats, paymentRequests, contributions, ui,
                   txRequests, posted, chain, now, hist, budget>>

\* An awaited call fails: the catch of the confirm branch (line 833) posts
\* its message, the catch of handleTransactionResponse (line 1134) and the
\* cancel branch leave the handler.
ThrowV2(t) ==
    /\ ~At(t, "idle")
    /\ budget.faults > 0
    /\ Spend("faults")
    /\ tasks' = [tasks EXCEPT ![t] =
                    IF @.pc \in {"v_lookup", "v_request"}
                    THEN [@ EXCEPT !.pc = "v_errmsg"] ELSE IdleTask]
    /\ UNCHANGED <<ethPriceCache, priceCalls, store, globalStats, userStats, paymentRequests, contributions,
                   ui, txRequests, posted, chain, now, hist>>

\* The process stops and is started again: the handlers that were running
\* are gone with their locals, the tables stay as they are.
CrashV2 ==
    /\ budget.crashes > 0
    /\ Spend("crashes")
    /\ tasks' = [t \in Tasks |-> IdleTask]
    /\ hist' = [hist EXCEPT
          ![SplitId].crashes = @ + 1,
          ![SplitId].interrupted =
              IF \E t \in Tasks : tasks[t].txId # <<>> THEN @ + 1 ELSE @,
          ![SplitId].crashMarkers =
              IF SplitId \in DOMAIN store
              THEN Len(store[SplitId].data.completedRecipients) ELSE @]
    /\ UNCHANGED <<ethPriceCache, priceCalls, store, globalStats, userStats, paymentRequests, contributions,
                   ui, txRequests, posted, chain, now>>

\* References the handler did not build: the empty string, "tx", "tx-tip",
\* a request id without the prefix, the reference of a prompt, and the
\* reference of an action that has no record.
UnknownRefs ==
    {<<"">>, <<"tx">>, <<"tx", "tip">>, <<"tipsplit", "e2">>,
     <<"form", "tipsplit", "e2">>, <<"tx", "tip", "e1">>}

\* A response arrives whose requestId is none of the references sent.
DeliverUnknownV2(t, txId) ==
    /\ Free(t)
    /\ budget.events > 0
    /\ Spend("events")
    /\ tasks' = [tasks EXCEPT ![t] =
                    [IdleTask EXCEPT !.pc = "v_tx_lookup", !.txId = txId,
                                     !.spaceId = "town1", !.txHash = TRUE,
                                     !.outcome = "success"]]
    /\ UNCHANGED <<ethPriceCache, priceCalls, store, globalStats, userStats,
                   paymentRequests, contributions, ui, txRequests, posted, chain,
                   now, hist>>

EnvironmentV2 ==
    \/ \E sp \in OpenSpaces, d \in SplitDataV2 : OpenV2(sp, d)
    \/ \E t \in Tasks, b \in {"confirm", "cancel"} : ClickV2(t, b)
    \/ \E t \in Tasks, txId \in txRequests, sp \in Spaces : DeliverV2(t, txId, sp)

NextV2 ==
    \/ EnvironmentV2
    \/ \E t \in Tasks, txId \in UnknownRefs : DeliverUnknownV2(t, txId)
    \/ CrashV2
    \/ \E t \in Tasks :
          \/ CancelV2(t) \/ ConfirmLookupV2(t) \/ ConfirmRequestV2(t) \/ ConfirmErrorV2(t)
          \/ TxLookupV2(t) \/ SplitMarkerV2(t)
          \/ SplitGlobalStatsV2(t) \/ SplitSenderStatsV2(t) \/ SplitRecipientStatsV2(t)
          \/ SplitProcessedV2(t) \/ SplitDeleteV2(t)
          \/ ThrowV2(t)

SpecV2 == InitV2 /\ [][NextV2]_vars

\* ------------------------- index.ts: the handlers kept in the entry point
\* In index.ts the pending confirmations, the statistics, the leaderboards
\* and the payment requests are Maps and arrays in the memory of the
\* process.  They are kept in the variables of the tables they stand for:
\* store is pendingTips, userStats is userStats (by user id), globalStats
\* holds the two leaderboards, paymentRequests is paymentRequests.
\* Amounts of ETH are counted in thousandths, prices in USD per ETH.
BotId == "tipsobot"
IndexPrices == {2000, 4000}

TipDataIndex(id) ==
    CASE Kind(id) = "tip" ->
           {[recipients |-> <<[userId |-> Recipients[1], amount |-> 5]>>,
             totalAmount |-> 5, paymentRequestId |-> NoUser,
             contributorId |-> NoUser, contributionUsd |-> 0]}
      [] Kind(id) = "tipsplit" ->
           {[recipients |-> [i \in 1..Len(Recipients) |->
                                [userId |-> Recipients[i], amount |-> 2]],
             totalAmount |-> 4, paymentRequestId |-> NoUser,
             contributorId |-> NoUser, contributionUsd |-> 0]}
      [] Kind(id) = "donate" ->
           {[recipients |-> <<[userId |-> BotId, amount |-> 5]>>,
             totalAmount |-> 5, paymentRequestId |-> NoUser,
             contributorId |-> NoUser, contributionUsd |-> 0]}
      [] OTHER ->
           {[recipients |-> <<[userId |-> Creator, amount |-> 5]>>,
             totalAmount |-> 5, paymentRequestId |-> RequestId,
             contributorId |-> Sender, contributionUsd |-> 10]}

ZeroStats ==
    [totalSent |-> 0, totalReceived |-> 0, tipsSent |-> 0, tipsReceived |-> 0,
     donations |-> 0]

getOrCreateStats(us, userId) ==
    IF userId \in DOMAIN us THEN us ELSE us @@ (userId :> ZeroStats)

updateSenderStats(us, userId, usdAmount, isDonation) ==
    [getOrCreateStats(us, userId) EXCEPT
        ![userId].totalSent = @ + usdAmount,
        ![userId].donations = IF isDonation THEN @ + 1 ELSE @,
        ![userId].tipsSent = IF isDonation THEN @ ELSE @ + 1]

updateReceiverStats(us, userId, usdAmount) ==
    [getOrCreateStats(us, userId) EXCEPT
        ![userId].totalReceived = @ + usdAmount,
        ![userId].tipsReceived = @ + 1]

\* Array.prototype.sort((a, b) => b.amount - a.amount): stable, descending.
RECURSIVE SortByAmount(_)
SortByAmount(entries) ==
    IF Len(entries) <= 1 THEN entries
    ELSE LET sorted == SortByAmount(SubSeq(entries, 1, Len(entries) - 1))
             e == entries[Len(entries)]
             k == Cardinality({i \in 1..Len(sorted) : sorted[i].amount >= e.amount})
         IN SubSeq(sorted, 1, k) \o <<e>> \o SubSeq(sorted, k + 1, Len(sorted))

Leaderboard(boards, isDonation) ==
    LET name == IF isDonation THEN "donators" ELSE "tippers"
    IN IF name \in DOMAIN boards THEN boards[name] ELSE <<>>

updateLeaderboard(boards, userId, usdAmount, isDonation) ==
    LET name == IF isDonation THEN "donators" ELSE "tippers"
        leaderboard == Leaderboard(boards, isDonation)
        found == {i \in 1..Len(leaderboard) : leaderboard[i].userId = userId}
        added == IF found # {}
                 THEN LET i == CHOOSE j \in found : \A l \in found : j <= l
                      IN [leaderboard EXCEPT ![i].amount = @ + usdAmount,
                                             ![i].count = @ + 1]
                 ELSE Append(leaderboard,
                             [userId |-> userId, amount |-> usdAmount, count |-> 1])
        sorted == SortByAmount(added)
        kept == IF Len(sorted) > LeaderboardSize
                THEN SubSeq(sorted, 1, LeaderboardSize) ELSE sorted
    IN [n \in DOMAIN boards \cup {name} |-> IF n = name THEN kept ELSE boards[n]]

InitIndex == Start(MaxEventsIndex)

\* /request: paymentRequests.set(requestId, ...)
RequestIndex ==
    /\ RequestId \notin DOMAIN paymentRequests
    /\ budget.events > 0
    /\ Spend("events")
    /\ paymentRequests' = paymentRequests @@
          (RequestId :> [amount |-> GoalAmount, totalCollected |-> 0,
                         contributors |-> <<>>])
    /\ UNCHANGED <<ethPriceCache, priceCalls, store, globalStats, userStats, contributions, ui, txRequests,
                   posted, chain, tasks, now, hist>>

\* /tip, /tipsplit, /donate, /contribute: pendingTips.set(requestId, ...)
OpenIndex(id, data) ==
    /\ budget.events > 0
    /\ Spend("events")
    /\ Kind(id) = "contrib" => RequestId \in DOMAIN paymentRequests
    /\ store' = [i \in DOMAIN store \cup {id} |-> IF i = id THEN data ELSE store[i]]
    /\ ui' = ui \cup {PromptRef(id)}
    /\ Count(id, "opens")
    /\ UNCHANGED <<ethPriceCache, priceCalls, globalStats, userStats, paymentRequests, contributions,
                   txRequests, posted, chain, tasks, now>>

\* onInteractionResponse up to its first await: the entry is looked up and
\* deleted; cancel is answered, confirm goes on to the requests.
ClickIndex(t, id, button) ==
    /\ Free(t)
    /\ budget.events > 0
    /\ PromptRef(id) \in ui
    /\ Spend("events")
    /\ store' = [i \in DOMAIN store \ {id} |-> store[i]]
    /\ IF id \notin DOMAIN store
       THEN UNCHANGED <<tasks, posted>>
       ELSE IF button = "cancel"
       THEN /\ posted' = [posted EXCEPT ![id].cancelled = @ + 1]
            /\ UNCHANGED tasks
       ELSE /\ tasks' = [tasks EXCEPT ![t] =
                  [IdleTask EXCEPT !.pc = "i_request", !.requestId = id,
                                   !.button = button, !.pendingTx = store[id],
                                   !.n = 1]]
            /\ UNCHANGED posted
    /\ UNCHANGED <<ethPriceCache, priceCalls, globalStats, userStats, paymentRequests, contributions, ui,
                   txRequests, chain, now, hist>>

\* One round of the loop: a transaction request for the next recipient.
ConfirmRequestIndex(t) ==
    /\ At(t, "i_request")
    /\ txRequests' = txRequests \cup
          {TxIdV2(tasks[t].requestId, tasks[t].pendingTx.recipients[tasks[t].n].userId)}
    /\ Count(tasks[t].requestId, "requests")
    /\ tasks' = [tasks EXCEPT ![t] =
          IF tasks[t].n = Len(tasks[t].pendingTx.recipients)
          THEN [@ EXCEPT !.pc = "i_finalize"]
          ELSE [@ EXCEPT !.n = @ + 1]]
    /\ UNCHANGED <<ethPriceCache, priceCalls, store, globalStats, userStats, paymentRequests, contributions,
                   ui, posted, chain, now, budget>>

\* After the requests: the message of the branch, then the payment request,
\* the statistics and the leaderboard are updated.
ConfirmFinalizeIndex(t, ethPrice) ==
    /\ At(t, "i_finalize")
    /\ LET id == tasks[t].requestId
           tipData == tasks[t].pendingTx
           totalUsd == (tipData.totalAmount * ethPrice) \div 1000
           recipient == tipData.recipients[1]
           tracked == /\ tipData.paymentRequestId # NoUser
                      /\ tipData.contributionUsd # 0
                      /\ tipData.paymentRequestId \in DOMAIN paymentRequests
           usd == IF tipData.contributionUsd # 0 THEN tipData.contributionUsd
                  ELSE totalUsd
           contributor == IF tipData.contributorId # NoUser
                          THEN tipData.contributorId ELSE Sender
       IN CASE Kind(id) = "donate" ->
                 /\ userStats' = updateSenderStats(userStats, Sender, totalUsd, TRUE)
                 /\ globalStats' = updateLeaderboard(globalStats, Sender, totalUsd, TRUE)
                 /\ posted' = [posted EXCEPT ![id].success = @ + 1]
                 /\ UNCHANGED paymentRequests
            [] Kind(id) = "contrib" ->
                 /\ paymentRequests' =
                       IF tracked
                       THEN [paymentRequests EXCEPT
                               ![tipData.paymentRequestId].contributors =
                                   Append(@, [userId |-> tipData.contributorId,
                                              amount |-> tipData.contributionUsd]),
                               ![tipData.paymentRequestId].totalCollected =
                                   @ + tipData.contributionUsd]
                       ELSE paymentRequests
                 /\ userStats' = updateReceiverStats(
                                    updateSenderStats(userStats, contributor, usd, FALSE),
                                    recipient.userId, usd)
                 /\ posted' = [posted EXCEPT ![id].success = @ + 1,
                                             ![id].update = IF tracked THEN @ + 1 ELSE @]
                 /\ UNCHANGED globalStats
            [] Kind(id) = "tipsplit" ->
                 /\ userStats' =
                       LET splitUsd == totalUsd \div Len(tipData.recipients)
                           sent == updateSenderStats(userStats, Sender, totalUsd, FALSE)
                       IN updateReceiverStats(
                             updateReceiverStats(sent, tipData.recipients[1].userId, splitUsd),
                             tipData.recipients[2].userId, splitUsd)
                 /\ globalStats' = updateLeaderboard(globalStats, Sender, totalUsd, FALSE)
                 /\ posted' = [posted EXCEPT ![id].success = @ + 1]
                 /\ UNCHANGED paymentRequests
            [] OTHER ->
                 /\ userStats' = updateReceiverStats(
                                    updateSenderStats(userStats, Sender, totalUsd, FALSE),
                                    recipient.userId, totalUsd)
                 /\ globalStats' = updateLeaderboard(globalStats, Sender, totalUsd, FALSE)
                 /\ posted' = [posted EXCEPT ![id].success = @ + 1]
                 /\ UNCHANGED paymentRequests
    /\ Count(tasks[t].requestId, "sender")
    /\ Finish(t)
    /\ UNCHANGED <<ethPriceCache, priceCalls, store, contributions, ui, txRequests, chain, now, budget>>

\* An await of the confirm branch fails: the catch block answers.
ConfirmErrorIndex(t) ==
    /\ At(t, "i_request") \/ At(t, "i_finalize")
    /\ budget.faults > 0
    /\ Spend("faults")
    /\ posted' = [posted EXCEPT ![tasks[t].requestId].confirmError = @ + 1]
    /\ Finish(t)
    /\ UNCHANGED <<ethPriceCache, priceCalls, store, globalStats, userStats, paymentRequests, contributions,
                   ui, txRequests, chain, now, hist>>

\* The response to a transaction request: its case is not 'form', and the
\* handler returns at once.
TransactionResponseIndex(txId) ==
    /\ txId \in txRequests
    /\ budget.events > 0
    /\ Spend("events")
    /\ UNCHANGED <<ethPriceCache, priceCalls, store, globalStats, userStats, paymentRequests, contributions,
                   ui, txRequests, posted, chain, tasks, now, hist>>

NextIndex ==
    \/ RequestIndex
    \/ \E id \in Ids : \E data \in TipDataIndex(id) : OpenIndex(id, data)
    \/ \E t \in Tasks, id \in Ids, button \in {"confirm", "cancel"} :
          ClickIndex(t, id, button)
    \/ \E t \in Tasks : ConfirmRequestIndex(t)
    \/ \E t \in Tasks, ethPrice \in IndexPrices : ConfirmFinalizeIndex(t, ethPrice)
    \/ \E t \in Tasks : ConfirmErrorIndex(t)
    \/ \E txId \in txRequests : TransactionResponseIndex(txId)

SpecIndex == InitIndex /\ [][NextIndex]_vars

\* ------------------------------------------------------------------ claims
Terminal == {"processed", "failed"}
SingleKinds == {"tip", "donate", "contrib"}

\* The settlement handlers at work on request id, past their status check.
Applying(id) ==
    {t \in Tasks : tasks[t].txId # <<>> /\ tasks[t].requestId = id
                   /\ tasks[t].pc \notin {"idle", "tx_lookup"}}

\* No settlement handler is at work on the callbacks of request id.
Quiet(id) == \A t \in Tasks : tasks[t].txId # TxId(id)

\* C1: when the settlement callbacks of a tip, donation or contribution are
\* handled one after another (no handling starts while another one of the
\* same request runs), every ledger write of the request runs at most once,
\* and once the record is processed each has run exactly once.
C1_ExactlyOnceUnderReplay ==
    \A id \in Ids :
        Kind(id) \in SingleKinds /\ hist[id].overlaps = 0 =>
            /\ hist[id].global <= 1
            /\ hist[id].sender <= 1
            /\ hist[id].recipient <= 1
            /\ hist[id].contrib <= 1
            /\ id \in DOMAIN store /\ store[id].status = "processed" =>
                  hist[id].global = 1 /\ hist[id].sender = 1

\* C2: at no time are two settlement handlers of the same request both past
\* the status check, each holding a record it read as pending.
C2_OnePassesStatusCheck ==
    \A id \in Ids : Cardinality(Applying(id)) <= 1

\* C3: updatePendingTransactionStatus writes only over a pending status: on
\* a stored record that is processed or failed it changes nothing, whatever
\* status it is given.
C3_StatusUpdateIsCheckAndSet ==
    \A id \in DOMAIN store :
        store[id].status \in Terminal =>
            \A status \in {"pending", "processed", "failed"} :
                updatePendingTransactionStatus(store, id, status) = store

\* C4: no step takes a stored record from processed or failed back to
\* pending: not a re-open through savePendingTransaction, nor a confirm, a
\* cancel, a settlement callback or the purge.  (A record that was deleted
\* and is saved again is a new record.)
C4_StatusNeverRegresses ==
    [][\A id \in DOMAIN store \cap DOMAIN store' :
          store[id].status \in Terminal => store'[id].status # "pending"]_vars

\* A record that was re-opened when it was already processed or failed.
C4_Witness ==
    \E id \in DOMAIN store : hist[id].reopens > 0 /\ store[id].status \in Terminal

\* C5: a settlement callback that ran a ledger write does not leave the
\* record pending: when no handler is at work on a request whose ledger has
\* been written, its record is not pending, and whenever the record is
\* processed the global write has run exactly once.
C5_LedgerAndStatusInStep ==
    \A id \in DOMAIN store :
        /\ Quiet(id) /\ hist[id].global > 0 /\ hist[id].lateCancels = 0
              => store[id].status # "pending"
        /\ store[id].status = "processed" /\ hist[id].lateCancels = 0
              => hist[id].global = 1

\* C6: for a record that is failed no ledger write has run: no global, no
\* sender and no recipient increment.
C6_FailedHasNoLedgerEffect ==
    \A id \in DOMAIN store :
        store[id].status = "failed" =>
            hist[id].global = 0 /\ hist[id].sender = 0 /\ hist[id].recipient = 0

\* C7: a settlement handler whose callback reports a failed operation goes
\* to a failure notice and the status failed only; it never reaches a ledger
\* write or the status processed.
C7_FailureNeverTreatedAsSuccess ==
    \A t \in Tasks :
        tasks[t].txId # <<>> /\ tasks[t].outcome = "failure" =>
            tasks[t].pc \in {"tx_lookup", "s_nohash", "s_depfail"}

\* The settlement handlers of the per-recipient revision that went on to the
\* aggregate effect.
FiringV2 ==
    {t \in Tasks : tasks[t].pc \in {"v_global", "v_sender", "v_recips", "v_processed"}}

\* C8: the aggregate ledger effect of a split runs only for a handler that
\* holds a marker of every expected recipient, and it runs at most once for
\* the split, in whatever order the recipients' callbacks arrive and however
\* often one of them arrives.
C8_SplitCompleteness ==
    /\ hist[SplitId].global <= 1
    /\ \A t \in FiringV2 :
          LET data == tasks[t].pendingTx.data
          IN \A i \in 1..Len(data.recipients) :
                Includes(data.completedRecipients, data.recipients[i].userId)

\* C9: a split whose record is processed had its batch transfer run and no
\* refund sent; a split whose deposit arrived and whose record is failed had
\* no batch transfer run and a refund attempted.
C9_SplitAtomicity ==
    \A id \in DOMAIN store :
        Kind(id) = "tipsplit" =>
            /\ store[id].status = "processed" =>
                  chain[id].paid > 0 /\ chain[id].refund = 0
            /\ store[id].status = "failed" /\ posted[id].noHash = 0
                                           /\ posted[id].depositFailed = 0 =>
                  /\ chain[id].paid = 0
                  /\ posted[id].refunded + posted[id].refundFailed > 0

\* C10: a cancel selected after the settlement request was issued does not
\* change what the settlement callback does to the ledger: the callback never
\* ends at its lookup for want of a record that such a cancel deleted.
C10_LateCancelHasNoEffect ==
    [][\A t \in Tasks :
          At(t, "tx_lookup") /\ tasks'[t].pc = "idle" /\ budget' = budget =>
             LET id == ParseTxId(tasks[t].txId).originalRequestId
             IN id \in DOMAIN store \/ hist[id].lateCancels = 0]_vars

\* C11: a cancel whose selection came after the settlement request was
\* issued, or that finds the record processed or failed, neither deletes nor
\* changes the record.
C11_CancelOnlyWhilePending ==
    [][\A t \in Tasks :
          At(t, "f_cancel_delete") /\ tasks'[t].pc = "f_cancel_msg"
          /\ (tasks[t].late \/ tasks[t].pendingTx.status \in Terminal)
             => store' = store]_vars

\* C12: a confirm handler attempts the removal of the confirmation prompt
\* before it issues the settlement request: at no time have more requests
\* been issued for an id than removals of its prompt attempted.
C12_PromptRemovedBeforeRequest ==
    \A id \in Ids : hist[id].requests <= hist[id].promptRemovals

\* C13: once a cancel has deleted a pending record for which no settlement
\* request had been issued, and while the id is not opened again, there is no
\* record of the id, no ledger write and no contribution record is made for
\* it, and a settlement callback that arrives for it is discarded at the
\* lookup; the removal of the prompt may have succeeded or failed.
C13_CancelOfPending ==
    \A id \in Ids :
        hist[id].earlyCancels > 0 /\ hist[id].opens = 1 =>
            /\ id \notin DOMAIN store
            /\ hist[id].global = 0 /\ hist[id].sender = 0
            /\ hist[id].recipient = 0 /\ hist[id].contrib = 0
            /\ Applying(id) = {}

\* A cancelled pending action whose prompt could not be removed and for
\* which a settlement callback arrived afterwards and was discarded.
C13_Witness ==
    \E id \in Ids :
        /\ hist[id].earlyCancels > 0 /\ hist[id].opens = 1
        /\ hist[id].unknown > 0
        /\ PromptRef(id) \in ui

\* C14: the store is keyed by id, and savePendingTransaction for an id whose
\* record is pending adds no record: it replaces the payload and the prompt
\* reference of that record and leaves its status pending and everything
\* else as it was.
C14_IdempotentOpen ==
    \A id \in DOMAIN store :
        store[id].status = "pending" =>
            \A sp \in Spaces, d \in PayloadsOf(id),
               ref \in {PromptRef(id), <<"form2">> \o id} :
                savePendingTransaction(store, sp, id, TypeOf(id), Sender, d, ref, now)
                    = [store EXCEPT ![id] = [@ EXCEPT !.data = d, !.messageId = ref]]

\* A pending record that was opened again while it was pending.
C14_Witness ==
    \E id \in DOMAIN store : hist[id].repeats > 0 /\ store[id].status = "pending"

RECURSIVE SumOfAmounts(_, _)
SumOfAmounts(cs, requestId) ==
    IF cs = <<>> THEN 0
    ELSE (IF Head(cs).request_id = requestId THEN Head(cs).amount ELSE 0)
         + SumOfAmounts(Tail(cs), requestId)

RECURSIVE SumOver(_, _)
SumOver(f, keys) ==
    IF keys = {} THEN 0
    ELSE LET k == CHOOSE x \in keys : TRUE IN f[k] + SumOver(f, keys \ {k})

\* The goal-reached count over all scopes.
CrowdfundingCount ==
    SumOver([sp \in DOMAIN globalStats |-> globalStats[sp].total_crowdfunding_count],
            DOMAIN globalStats)

\* C15: however often the settlement callback of the one contribution is
\* delivered, one contribution record is written for it and the goal-reached
\* count goes up by one at most.
C15_GoalReachedCountedOnce ==
    /\ hist[ContribId].contrib <= 1
    /\ Len(contributions) <= 1
    /\ CrowdfundingCount <= 1

\* C16: for every payment request, total_collected is the sum of the amounts
\* of the contribution records of that request.
C16_TotalMatchesContributions ==
    \A r \in DOMAIN paymentRequests :
        paymentRequests[r].total_collected = SumOfAmounts(contributions, r)

\* Two contribution records were written for the request.
C16_Witness ==
    /\ Len(contributions) = 2
    /\ paymentRequests[RequestId].total_collected > 0

\* C17: after every step, is_completed of a payment request is true exactly
\* when total_collected >= amount; a request that was completed stays
\* completed; completed_at is set, to the time of that step, by the step that
\* first reaches the goal, and is not changed afterwards.
C17_CompletionFlag ==
    [][\A r \in DOMAIN paymentRequests' :
          LET q == paymentRequests'[r]
          IN /\ q.is_completed <=> q.total_collected >= q.amount
             /\ q.is_completed <=> q.completed_at # NoTime
             /\ r \in DOMAIN paymentRequests =>
                   LET p == paymentRequests[r]
                   IN /\ p.is_completed => q.is_completed
                      /\ p.completed_at # NoTime => q.completed_at = p.completed_at
                      /\ ~p.is_completed /\ q.is_completed => q.completed_at = now]_vars

\* A contribution was added long after the request was completed: its
\* handler found the request completed, but not just completed.
C17_Witness ==
    \E t \in Tasks :
        /\ At(t, "c_global") /\ ~tasks[t].justCompleted
        /\ paymentRequests[RequestId].is_completed
        /\ paymentRequests[RequestId].completed_at < now
        /\ Len(contributions) = 2

\* C18: after one tip was opened, confirmed and settled by one successful
\* callback, with nothing else happening to it, the record is processed, one
\* success message was posted, and in the scope of the callback the sender's
\* total_sent and the recipient's total_received are the USD amount of the
\* tip (the ledger was empty before).
C18_TipEndToEnd ==
    \A id \in DOMAIN store :
        /\ Kind(id) = "tip" /\ store[id].status = "processed"
        /\ store[id].data.recipientId # NoUser
        /\ hist[id].opens = 1 /\ hist[id].overlaps = 0
        /\ hist[id].global = 1 /\ hist[id].sender = 1 /\ hist[id].recipient = 1
        => /\ posted[id].success = 1
           /\ \E sp \in Spaces :
                 /\ <<sp, Sender>> \in DOMAIN userStats
                 /\ <<sp, store[id].data.recipientId>> \in DOMAIN userStats
                 /\ userStats[<<sp, Sender>>].total_sent = store[id].data.usdAmount
                 /\ userStats[<<sp, store[id].data.recipientId>>].total_received
                       = store[id].data.usdAmount

\* No settlement handler of the per-recipient revision is running.
QuietV2 == \A t \in Tasks : tasks[t].txId = <<>>

SeqToSet(seq) == {seq[i] : i \in 1..Len(seq)}

C21_PriceCachePolicy ==
    [][\A c \in Callers :
          LET call == priceCalls.call[c]
              after == priceCalls'.call[c]
              last == priceCalls.lastFetch
          IN /\ call.pc = "idle" /\ after.pc # "idle" =>
                   IF priceCalls.fetches > 0
                      /\ now - last.timestamp < PRICE_CACHE_DURATION
                   THEN after.pc = "done" /\ after.value = last.price
                   ELSE after.pc = "fetching"
             /\ call.pc = "fetching" /\ after.pc = "done" =>
                   IF after.fetched = "usd"
                   THEN ethPriceCache' = [price |-> after.value,
                                          timestamp |-> call.started]
                   ELSE /\ ethPriceCache' = ethPriceCache
                        /\ priceCalls.fetches > 0 => after.value = last.price]_vars

\* The ledger rows of a scope: its global row and the rows of its users.
LedgerOf(global, users, sp) ==
    <<IF sp \in DOMAIN global THEN <<global[sp]>> ELSE <<>>,
      [k \in {k \in DOMAIN users : k[1] = sp} |-> users[k]]>>

\* C22: a step changes the ledger rows of a scope only when it is taken by a
\* settlement handler whose record was opened in that scope, whatever scope
\* the callback event carries.
C22_ScopeIsolation ==
    [][\A sp \in Spaces :
          LedgerOf(globalStats', userStats', sp) # LedgerOf(globalStats, userStats, sp)
          => \E t \in Tasks : /\ tasks[t].txId # <<>>
                              /\ tasks[t].pendingTx.spaceId = sp]_vars

\* C23: no step lowers a counter of the ledger: every row of the global
\* statistics and of the user statistics stays, and each of its columns is
\* at least what it was.
C23_CountersNeverDecrease ==
    [][/\ \A sp \in DOMAIN globalStats :
             /\ sp \in DOMAIN globalStats'
             /\ \A c \in DOMAIN ZeroGlobalRow :
                   globalStats'[sp][c] >= globalStats[sp][c]
       /\ \A k \in DOMAIN userStats :
             /\ k \in DOMAIN userStats'
             /\ \A c \in DOMAIN ZeroUserRow :
                   userStats'[k][c] >= userStats[k][c]]_vars

\* A global row and a user row were each added to more than once.
C23_Witness ==
    /\ \E sp \in DOMAIN globalStats : globalStats[sp].total_tips_count > 1
    /\ \E k \in DOMAIN userStats : userStats[k].total_sent > 0

\* C24: a record that a settlement callback moved to processed or failed
\* stays in the store with that status, where a duplicate callback finds
\* it: a step that moves a record to a terminal status keeps it, and a step
\* that removes a terminal record is the purge of a record past the purge
\* age.
C24_TerminalRecordsRetained ==
    [][\A id \in DOMAIN store :
          /\ store[id].status = "pending" /\ id \in DOMAIN store' =>
                store'[id].status \in Terminal \cup {"pending"}
          /\ store[id].status \in Terminal /\ id \notin DOMAIN store' =>
                now - store[id].createdAt > PurgeAge]_vars

\* C25: the purge keeps every record for 7 days: a record that a purge step
\* removes was created more than 7 days before.
C25_SevenDayRetention ==
    [][/\ tasks' = tasks
       /\ store' # store
       /\ store' = cleanupOldTransactions(store, now)
       => \A id \in DOMAIN store \ DOMAIN store' :
             now - store[id].createdAt > RetentionWindow]_vars

\* C26: garbage collection never costs a settlement callback its record:
\* the purge removes no record that is pending and has a settlement request
\* issued, so the callback that follows the request still finds it.
C26_PurgeSparesAwaitedRecords ==
    [][/\ tasks' = tasks
       /\ store' # store
       /\ store' = cleanupOldTransactions(store, now)
       => \A id \in DOMAIN store \ DOMAIN store' :
             ~(store[id].status = "pending" /\ hist[id].requests > 0)]_vars

\* C27: nothing is finalized before the transaction is confirmed: a step
\* that changes the statistics, the leaderboards, the collected total of a
\* payment request or the contributions is taken while a settlement
\* callback is being handled, never while a click on the prompt is.
C27_NothingFinalizedBeforeSettlement ==
    [][\/ userStats' # userStats
       \/ globalStats' # globalStats
       \/ contributions' # contributions
       \/ \E r \in DOMAIN paymentRequests : paymentRequests'[r] # paymentRequests[r]
       => \E t \in Tasks : tasks[t].txId # <<>>]_vars

\* C28: a confirm selection that finds its record processed is not acted
\* on: the steps of its handler issue no settlement request and leave the
\* store as it is.
C28_ConfirmChecksStatus ==
    [][\A t \in Tasks :
          /\ tasks[t].button = "confirm"
          /\ tasks[t].pendingTx.status = "processed"
          /\ tasks'[t] # tasks[t]
          => /\ hist'[tasks[t].requestId].requests = hist[tasks[t].requestId].requests
             /\ txRequests' = txRequests
             /\ store' = store]_vars

\* C29: a settlement callback whose id has no record, or whose record is
\* processed or failed, is dropped at the lookup: the handler ends there and
\* the store, the ledger, the payment requests, the transfers and refunds of
\* the bot and the messages stay as they are.
C29_DuplicateDiscarded ==
    [][\A t \in Tasks :
          LET id == ParseTxId(tasks[t].txId).originalRequestId
          IN /\ At(t, "tx_lookup")
             /\ tasks'[t] # tasks[t]
             /\ \/ id \notin DOMAIN store
                \/ store[id].status \in Terminal
             => /\ tasks'[t] = IdleTask
                /\ UNCHANGED <<store, globalStats, userStats, paymentRequests,
                               contributions, chain, posted, ui, txRequests>>]_vars

\* A duplicate callback found its record processed and was dropped: the
\* action is counted once and answered once.
C29_Witness ==
    \E id \in DOMAIN store :
        /\ hist[id].discarded > 0 /\ store[id].status = "processed"
        /\ hist[id].global = 1 /\ posted[id].success = 1
        /\ \A t \in Tasks : At(t, "idle")

\* A reference that does not start with "tx-" or has fewer than three parts.
Malformed(ref) == Len(ref) < 3 \/ ref[1] # "tx"

\* C30: the settlement reference is resolved back to what it was built
\* from.  tx-<id> gives the id, tx-<id>-<recipient> gives the id and, for a
\* split, the recipient; the lookup step of the handler (the step that
\* spends no budget: a restart or a failing read does) goes on with the
\* record of that id or ends; a malformed reference resolves to nothing,
\* ends the handler and changes no state.
C30_SettlementRefRoundTrip ==
    [][/\ \A id \in Ids :
             /\ ParseTxId(TxId(id)) = [ok |-> TRUE, originalRequestId |-> id]
             /\ ParseTxIdV2(TxId(id)) =
                   [ok |-> TRUE, originalRequestId |-> id, recipientUserId |-> NoUser]
             /\ \A i \in 1..Len(RecipientsV2) :
                   ParseTxIdV2(TxIdV2(id, RecipientsV2[i])) =
                      [ok |-> TRUE, originalRequestId |-> id,
                       recipientUserId |-> IF Kind(id) = "tipsplit"
                                           THEN RecipientsV2[i] ELSE NoUser]
       /\ \A ref \in UnknownRefs :
             Malformed(ref) => ~ParseTxId(ref).ok /\ ~ParseTxIdV2(ref).ok
       /\ \A t \in Tasks :
             At(t, "v_tx_lookup") /\ tasks'[t] # tasks[t] /\ budget' = budget =>
                /\ Malformed(tasks[t].txId) =>
                      /\ tasks'[t] = IdleTask
                      /\ UNCHANGED <<store, globalStats, userStats, paymentRequests,
                                     contributions, ui, txRequests, posted, chain,
                                     hist>>
                /\ \A i \in 1..Len(RecipientsV2) :
                      tasks[t].txId = TxIdV2(SplitId, RecipientsV2[i]) =>
                         \/ tasks'[t] = IdleTask
                         \/ /\ tasks'[t].requestId = SplitId
                            /\ tasks'[t].pendingTx = store[SplitId]
                            /\ tasks'[t].txId = tasks[t].txId]_vars

\* The reference of a recipient of the split was resolved and its handler
\* holds the record of the split; a malformed reference was dropped before.
C30_Witness ==
    \E t \in Tasks :
        /\ At(t, "v_marker") /\ tasks[t].requestId = SplitId
        /\ tasks[t].txId \in txRequests
        /\ ParseTxIdV2(tasks[t].txId).recipientUserId = RecipientsV2[2]
        /\ budget.events = 0

\* C31: upsertUserStats is additive for every user: after the call each
\* counter of the user in the scope is what it was (0 without a row) plus
\* its delta, for a user with a row and for a new one.
C31_UpsertIsAdditive ==
    \A sp \in Spaces, u \in Users :
        \A stats \in {[sentAmount |-> 5, tipsSent |-> 1, tipsSentAmount |-> 5],
                      [receivedAmount |-> 10, tipsReceived |-> 1]} :
            LET key == <<sp, u>>
                before == IF key \in DOMAIN userStats THEN userStats[key]
                          ELSE ZeroUserRow
                after == upsertUserStats(userStats, sp, u, stats)[key]
            IN \A c \in DOMAIN ZeroUserRow :
                  LET fs == {f \in DOMAIN stats : UserColumn(f) = c}
                  IN after[c] = before[c]
                                + (IF fs = {} THEN 0 ELSE stats[CHOOSE f \in fs : TRUE])

\* C32: at most one payout per split: over any sequence and interleaving of
\* the callbacks delivered for one split action the batch transfer is
\* invoked at most once.
C32_AtMostOnePayout ==
    \A id \in Ids : Kind(id) = "tipsplit" => chain[id].batch <= 1

C34_RefundAtMostOnce ==
    \A id \in Ids :
        Kind(id) = "tipsplit" =>
            posted[id].refunded + posted[id].refundFailed <= 1

\* C35: no completion marker is lost under concurrency (per-recipient
\* settlement).  For a split opened once, with no exception and no restart,
\* once every handling of its callbacks has finished, the record holds the marker of
\* every recipient whose callback was handled, and when the callbacks of all
\* recipients were handled the aggregate effect was applied; at no time is
\* it applied twice.
C35_NoLostMarker ==
    /\ hist[SplitId].global <= 1
    /\ ( /\ QuietV2
         /\ hist[SplitId].opens = 1
         /\ budget.faults = MaxFaults
         /\ budget.crashes = MaxCrashes ) =>
            /\ SplitId \in DOMAIN store =>
                  hist[SplitId].marked
                      \subseteq SeqToSet(store[SplitId].data.completedRecipients)
            /\ hist[SplitId].marked = SeqToSet([i \in 1..Len(RecipientsV2) |->
                                                   RecipientsV2[i]]) =>
                  hist[SplitId].global = 1

\* C36: the terminal states are absorbing: no step takes a stored record
\* from processed to failed or from failed to processed, under any
\* interleaving of the callbacks of one action.
C36_TerminalAbsorbing ==
    [][\A id \in DOMAIN store \cap DOMAIN store' :
          /\ store[id].status = "processed" => store'[id].status # "failed"
          /\ store[id].status = "failed" => store'[id].status # "processed"]_vars

\* C37: the goal-reached count of a payment request grows by one over its
\* life.  When the request is completed already, the settlement of a further
\* contribution by another contributor (addContribution, the justCompleted
\* test and updateGlobalStats, as the handler runs them at the present time)
\* leaves crowdfundingCount of the scope as it is, however short the time
\* since the completing contribution.
C37_GoalCountOncePerRequest ==
    \A r \in DOMAIN paymentRequests :
        paymentRequests[r].is_completed =>
            \A sp \in OpenSpaces :
                LET args == [requestId |-> r, contributorId |-> Recipients[1],
                             amount |-> 5]
                    updatedRequest == addContributionRequests(paymentRequests, args, now)[r]
                    justCompleted == JustCompleted(updatedRequest, now)
                    count(gs) == IF sp \in DOMAIN gs
                                 THEN gs[sp].total_crowdfunding_count ELSE 0
                    after == updateGlobalStats(globalStats, sp,
                                [crowdfundingVolume |-> args.amount,
                                 crowdfundingCount |-> IF justCompleted THEN 1 ELSE 0])
                IN count(after) = count(globalStats)

\* A settlement callback is being handled for the record of id: its handler
\* found the record pending and of a known kind and went on.
Handled(id) ==
    \E t \in Tasks : /\ tasks[t].txId # <<>>
                     /\ tasks[t].pc # "tx_lookup"
                     /\ tasks[t].requestId = id

\* C38: under fair scheduling, whenever a settlement callback is handled for
\* a pending record of a known kind, the record eventually has the status
\* processed or failed.
C38_SettledReachesTerminal ==
    \A id \in Ids :
        Handled(id) ~> (id \in DOMAIN store /\ store[id].status \in Terminal)

\* C39: getEthPrice always returns a positive number.  Whatever the request
\* to the price service comes to (a failure, a positive price, a zero or
\* negative price, a body without the price field), the value a finished
\* call hands to usdToEth is a number greater than 0, and the cache holds
\* either its empty initial value or a positive price.
C39_PriceAlwaysPositive ==
    /\ \A c \in Callers :
          priceCalls.call[c].pc = "done" =>
              GreaterThanZero(priceCalls.call[c].value)
    /\ \/ ethPriceCache = [price |-> <<0>>, timestamp |-> 0]
       \/ GreaterThanZero(ethPriceCache.price)

====
